---- MODULE Spec2Model ----
(***************************************************************************)
(* Model of the zipcodes library (src/lib.rs): the lazily initialised      *)
(* ZIPCODES dataset, clean_zipcode, matching, is_real, filter_by and       *)
(* list_all.                                                               *)
(*                                                                         *)
(* A &str is a sequence of characters.  Each character carries the three   *)
(* facts the code depends on: its UTF-8 width (str::len and the slice      *)
(* &zipcode[..5] count bytes), whether str::trim removes it, and whether   *)
(* char::is_numeric accepts it.                                            *)
(***************************************************************************)
EXTENDS Naturals, Sequences, FiniteSets

VARIABLES
    fn,        \* the function the caller invoked ("none" before the call)
    input,     \* the zipcode: &str argument
    other,     \* the zipcode argument of the inner call that builds an override
    filters,   \* the filters: Vec<F> argument of filter_by
    scope,     \* the zipcodes: Option<Vec<Zipcode>> argument
    ret,       \* what the call returned
    once,      \* state of the Once guarding ZIPCODES
    cell,      \* the Cell<Option<Vec<Zipcode>>> behind ZIPCODES
    embedded,  \* condition of the embedded zips.json.bz2
    initRuns,  \* how many times the initialiser block was entered
    pc,        \* per thread: where the thread is
    call,      \* per thread: function and arguments of the call in progress
    building,  \* per thread: local state of a running initialiser
    result,    \* per thread: what its last call returned
    heap,      \* per thread: the Vec<Zipcode> the thread owns
    handle     \* per thread: which Vec its list_all result refers to

queryVars == <<fn, input, other, filters, scope, ret>>
storeVars == <<once, cell, embedded, initRuns, pc, call, building, result, heap, handle>>
vars == <<fn, input, other, filters, scope, ret,
          once, cell, embedded, initRuns, pc, call, building, result, heap, handle>>

----------------------------------------------------------------------------
(* Bounds *)

\* longest zipcode argument, in characters
MaxLen == 6
\* longest filters vector
MaxFilters == 2
\* longest override vector
MaxScopeLen == 3
\* number of caller threads
NumThreads == 2

----------------------------------------------------------------------------
(* Characters *)

ZIPCODE_LENGTH == 5

\* "U+00E9" is e-acute (2 bytes, a letter); "U+0663" is ARABIC-INDIC DIGIT
\* THREE (2 bytes, general category Nd).
Chars == {"0", "1", " ", "-", "U+00E9", "U+0663"}

AsciiDigits == {"0", "1"}

\* char::len_utf8
Utf8Len(c) == IF c \in {"U+00E9", "U+0663"} THEN 2 ELSE 1

\* char::is_whitespace, the test str::trim applies
IsWhitespace(c) == c = " "

\* char::is_numeric: the Unicode categories Nd, Nl and No
IsNumeric(c) == c \in {"0", "1", "U+0663"}

\* str::len, a count of bytes
RECURSIVE ByteLen(_)
ByteLen(s) == IF s = <<>> THEN 0 ELSE Utf8Len(Head(s)) + ByteLen(Tail(s))

RECURSIVE TrimStart(_)
TrimStart(s) ==
    IF s # <<>> /\ IsWhitespace(Head(s)) THEN TrimStart(Tail(s)) ELSE s

RECURSIVE TrimEnd(_)
TrimEnd(s) ==
    IF s # <<>> /\ IsWhitespace(s[Len(s)])
    THEN TrimEnd(SubSeq(s, 1, Len(s) - 1))
    ELSE s

\* str::trim
Trim(s) == TrimEnd(TrimStart(s))

\* str::is_char_boundary(n)
IsCharBoundary(s, n) ==
    \E k \in 0..Len(s) : ByteLen(SubSeq(s, 1, k)) = n

\* &s[..n], defined when n is a character boundary of s
SliceTo(s, n) ==
    LET k == CHOOSE j \in 0..Len(s) : ByteLen(SubSeq(s, 1, j)) = n
    IN  SubSeq(s, 1, k)

\* Iterator::all(|c| c.is_numeric())
AllNumeric(s) == \A i \in 1..Len(s) : IsNumeric(s[i])

----------------------------------------------------------------------------
(* Values *)

Ok(v) == [tag |-> "Ok", val |-> v]
Err(e) == [tag |-> "Err", val |-> e]
\* a panic unwinds out of the call: the caller gets no value
Panic == [tag |-> "Panic", val |-> "panic"]
NoRet == [tag |-> "NoRet", val |-> "none"]

None == [some |-> FALSE, vec |-> <<>>]
Some(v) == [some |-> TRUE, vec |-> v]

\* The Zipcode struct, by three of its fields.
Zipcode(code, city, active) == [zip_code |-> code, city |-> city, active |-> active]

Z1 == Zipcode(<<"0", "0", "0", "0", "1">>, "A", TRUE)
Z2 == Zipcode(<<"0", "0", "0", "0", "1">>, "B", FALSE)
Z3 == Zipcode(<<"0", "0", "0", "1", "1">>, "A", TRUE)

Zipcodes == {Z1, Z2, Z3}

\* The records zips.json.bz2 decodes to: two records share a code and one
\* record occurs twice.
Data == <<Z1, Z3, Z2, Z1>>

----------------------------------------------------------------------------
(* The query functions *)

\* fn clean_zipcode(zipcode: &str) -> Result<&str>
clean_zipcode(zipcode) ==
    LET trimmed == Trim(zipcode) IN
    IF ByteLen(trimmed) < ZIPCODE_LENGTH THEN Err("InvalidFormat")
    ELSE IF ~IsCharBoundary(trimmed, ZIPCODE_LENGTH) THEN Panic
    ELSE IF ~AllNumeric(SliceTo(trimmed, ZIPCODE_LENGTH)) THEN Err("InvalidCharacters")
    ELSE Ok(trimmed)

\* (variant: the override is ignored)
unwrap_or_ignored(zipcodes, ZIPCODES) == ZIPCODES

\* zipcodes.as_ref().unwrap_or(&ZIPCODES), with the dereferenced ZIPCODES
unwrap_or(zipcodes, ZIPCODES) == IF zipcodes.some THEN zipcodes.vec ELSE ZIPCODES

\* the closure |z| z.zip_code == zipcode
SameCode(z, zipcode) == z.zip_code = zipcode

\* pub fn matching(zipcode, zipcodes), given what ZIPCODES dereferences to
matching(zipcode, zipcodes, ZIPCODES) ==
    LET cleaned == clean_zipcode(zipcode) IN
    IF cleaned.tag # "Ok" THEN cleaned
    ELSE LET Keep(z) == SameCode(z, cleaned.val)
         IN  Ok(SelectSeq(unwrap_or(zipcodes, ZIPCODES), Keep))

\* (variant: the negation is missing)
IsEmpty(matching_zipcodes) == Ok(matching_zipcodes = <<>>)

\* Ok(!matching_zipcodes.is_empty())
NonEmpty(matching_zipcodes) == Ok(matching_zipcodes # <<>>)

\* pub fn is_real(zipcode)
is_real(zipcode, ZIPCODES) ==
    LET cleaned == clean_zipcode(zipcode) IN
    IF cleaned.tag # "Ok" THEN cleaned
    ELSE LET matching_zipcodes == matching(cleaned.val, None, ZIPCODES) IN
         IF matching_zipcodes.tag # "Ok" THEN matching_zipcodes
         ELSE NonEmpty(matching_zipcodes.val)

\* the closure body of filter_by: the first failing filter returns false
RECURSIVE PassesFrom(_, _, _)
PassesFrom(fs, i, z) ==
    IF i > Len(fs) THEN TRUE
    ELSE IF ~fs[i][z] THEN FALSE
    ELSE PassesFrom(fs, i + 1, z)

\* (variant: one accepting filter is enough)
PassesAny(fs, z) == fs = <<>> \/ \E i \in 1..Len(fs) : fs[i][z]

\* the closure |z| { for filter in &filters { .. } true }
Passes(fs, z) == PassesFrom(fs, 1, z)

\* pub fn filter_by(filters, zipcodes)
filter_by(fs, zipcodes, ZIPCODES) ==
    LET Keep(z) == Passes(fs, z)
    IN  Ok(SelectSeq(unwrap_or(zipcodes, ZIPCODES), Keep))

\* pub fn list_all(): ZIPCODES.clone(), the cloned vector's contents
list_all(ZIPCODES) == ZIPCODES

----------------------------------------------------------------------------
(* Arguments the callers pass *)

Threads == 1..NumThreads

\* every &str of at most MaxLen characters
Inputs == UNION {[1..n -> Chars] : n \in 0..MaxLen}

\* well-formed arguments: optional leading blank, five ASCII digits, and
\* nothing, a hyphen suffix or a space suffix
CodeInputs ==
    {pad \o code \o suffix :
        pad \in {<<>>, <<" ">>},
        code \in [1..ZIPCODE_LENGTH -> AsciiDigits],
        suffix \in {<<>>, <<"-", "0">>, <<" ", "1">>}}

\* every Fn(&Zipcode) -> bool, as its graph over the records
Predicates == [Zipcodes -> BOOLEAN]

FilterLists == UNION {[1..n -> Predicates] : n \in 0..MaxFilters}

\* every Some(vec) of at most MaxScopeLen records
Overrides == {Some(v) : v \in UNION {[1..n -> Zipcodes] : n \in 0..MaxScopeLen}}

\* a thread's call record: the function and its arguments
Args(f, zipcode, zipcodes, fs) ==
    [fn |-> f, zipcode |-> zipcode, zipcodes |-> zipcodes, filters |-> fs]

NoArgs == Args("none", <<>>, None, <<>>)

\* the store once ZIPCODES has been initialised from intact data
StoreLoaded ==
    /\ once = "COMPLETE"
    /\ cell = Some(Data)
    /\ embedded = "intact"
    /\ initRuns = 1
    /\ pc = [t \in Threads |-> "idle"]
    /\ call = [t \in Threads |-> NoArgs]
    /\ building = [t \in Threads |-> "none"]
    /\ result = [t \in Threads |-> NoRet]
    /\ heap = [t \in Threads |-> <<>>]
    /\ handle = [t \in Threads |-> <<>>]

NoCall ==
    /\ fn = "none"
    /\ input = <<>>
    /\ other = <<>>
    /\ filters = <<>>
    /\ scope = None
    /\ ret = NoRet

----------------------------------------------------------------------------
(* SpecValidate: one call of clean_zipcode, matching or is_real on any     *)
(* argument, against the loaded dataset.                                   *)

InitValidate == NoCall /\ StoreLoaded

CallClean ==
    /\ fn = "none"
    /\ \E s \in Inputs :
        /\ input' = s
        /\ ret' = clean_zipcode(s)
    /\ fn' = "clean_zipcode"
    /\ UNCHANGED <<other, filters, scope, storeVars>>

CallMatching ==
    /\ fn = "none"
    /\ \E s \in Inputs :
        /\ input' = s
        /\ ret' = matching(s, None, cell.vec)
    /\ fn' = "matching"
    /\ UNCHANGED <<other, filters, scope, storeVars>>

CallIsReal ==
    /\ fn = "none"
    /\ \E s \in Inputs :
        /\ input' = s
        /\ ret' = is_real(s, cell.vec)
    /\ fn' = "is_real"
    /\ UNCHANGED <<other, filters, scope, storeVars>>

NextValidate == CallClean \/ CallMatching \/ CallIsReal

SpecValidate == InitValidate /\ [][NextValidate]_vars

----------------------------------------------------------------------------
(* SpecOverride: the caller settles the zipcodes argument (None, a vector   *)
(* of its own, or the result of an inner matching call), then calls        *)
(* matching or filter_by with it.                                          *)

InitOverride == NoCall /\ StoreLoaded

InnerMatching ==
    /\ fn = "none"
    /\ \E o \in CodeInputs :
        /\ other' = o
        /\ matching(o, None, cell.vec).tag = "Ok"
        /\ scope' = Some(matching(o, None, cell.vec).val)
    /\ fn' = "inner"
    /\ UNCHANGED <<input, filters, ret, storeVars>>

SupplyOverride ==
    /\ fn = "none"
    /\ scope' \in Overrides \cup {None}
    /\ fn' = "supplied"
    /\ UNCHANGED <<input, other, filters, ret, storeVars>>

OuterMatching ==
    /\ fn \in {"inner", "supplied"}
    /\ \E c \in CodeInputs :
        /\ input' = c
        /\ ret' = matching(c, scope, cell.vec)
    /\ fn' = IF fn = "inner" THEN "matching_inner" ELSE "matching"
    /\ UNCHANGED <<other, filters, scope, storeVars>>

OuterFilterBy ==
    /\ fn \in {"inner", "supplied"}
    /\ \E fs \in FilterLists :
        /\ filters' = fs
        /\ ret' = filter_by(fs, scope, cell.vec)
    /\ fn' = "filter_by"
    /\ UNCHANGED <<input, other, scope, storeVars>>

NextOverride == InnerMatching \/ SupplyOverride \/ OuterMatching \/ OuterFilterBy

SpecOverride == InitOverride /\ [][NextOverride]_vars

----------------------------------------------------------------------------
(* SpecFilter: one call of filter_by or list_all.                          *)

InitFilter == NoCall /\ StoreLoaded

CallFilterBy ==
    /\ fn = "none"
    /\ \E fs \in FilterLists, o \in Overrides \cup {None} :
        /\ filters' = fs
        /\ scope' = o
        /\ ret' = filter_by(fs, o, cell.vec)
    /\ fn' = "filter_by"
    /\ UNCHANGED <<input, other, storeVars>>

CallListAll ==
    /\ fn = "none"
    /\ ret' = Ok(list_all(cell.vec))
    /\ fn' = "list_all"
    /\ UNCHANGED <<input, other, filters, scope, storeVars>>

NextFilter == CallFilterBy \/ CallListAll

SpecFilter == InitFilter /\ [][NextFilter]_vars

----------------------------------------------------------------------------
(* Spec: threads call the public functions concurrently.  The first        *)
(* dereference of ZIPCODES runs the lazy_static initialiser under its      *)
(* Once; a thread may change the vector list_all gave it.                  *)

\* the predicate |z| z.active
IsActive == [z \in Zipcodes |-> z.active]

\* arguments the threads pass: a code in the data, a code not in the data,
\* a string that is too short
ThreadCodes == {<<"0", "0", "0", "0", "1">>, <<"0", "0", "0", "0", "0">>, <<"0", "0">>}
ThreadOverrides == {None, Some(<<Z3, Z2>>)}
ThreadFilters == {<<>>, <<IsActive>>}

ThreadCalls ==
    {Args("matching", c, o, <<>>) : c \in ThreadCodes, o \in ThreadOverrides}
    \cup {Args("is_real", c, None, <<>>) : c \in ThreadCodes}
    \cup {Args("filter_by", <<>>, o, fs) : o \in ThreadOverrides, fs \in ThreadFilters}
    \cup {Args("list_all", <<>>, None, <<>>)}

Init ==
    /\ NoCall
    /\ once = "INCOMPLETE"
    /\ cell = None
    /\ embedded \in {"intact", "corrupt_bzip2", "corrupt_json"}
    /\ initRuns = 0
    /\ pc = [t \in Threads |-> "idle"]
    /\ call = [t \in Threads |-> NoArgs]
    /\ building = [t \in Threads |-> "none"]
    /\ result = [t \in Threads |-> NoRet]
    /\ heap = [t \in Threads |-> <<>>]
    /\ handle = [t \in Threads |-> <<>>]

\* decompressor.read_to_string(&mut zipcode_json_bytes): the text, or the
\* io::Error of a corrupt stream
read_to_string(bytes) ==
    IF bytes = "corrupt_bzip2" THEN Err("io")
    ELSE IF bytes = "corrupt_json" THEN Ok("garbage")
    ELSE Ok("json")

\* serde_json::from_str::<Vec<Zipcode>>
from_str(text) == IF text = "json" THEN Ok(Data) ELSE Err("serde")

\* Result::unwrap: an Err panics
unwrap(r) == IF r.tag = "Ok" THEN r ELSE Panic

\* (variant: a parse error yields an empty dataset)
ok_or_empty(r) == IF r.tag = "Ok" THEN r ELSE Ok(<<>>)

\* match { Ok(o) => o, Err(e) => panic!(..) }
ok_or_panic(r) == IF r.tag = "Ok" THEN r ELSE Panic

\* (variant: a running initialiser does not keep others out)
MayRunAgain(state) == state \in {"INCOMPLETE", "RUNNING"}

\* Once::call_once may start the closure only from INCOMPLETE
MayRun(state) == state = "INCOMPLETE"

\* Once::call_once returns, and the cell is read, only once COMPLETE
MayRead(state) == state = "COMPLETE"

\* (variant: the caller is handed the vector inside ZIPCODES)
share(t) == 0

\* Vec::clone: the address of the vector the caller receives, a fresh
\* vector owned by thread t (address 0 is the vector inside ZIPCODES)
clone(t) == t

\* the vector at an address
Vec(a) == IF a = 0 THEN cell.vec ELSE heap[a]

\* the part of a call that runs before ZIPCODES is dereferenced
Call(t) ==
    /\ pc[t] = "idle"
    /\ \E c \in ThreadCalls :
        /\ call' = [call EXCEPT ![t] = c]
        /\ LET cleaned == clean_zipcode(c.zipcode) IN
           IF c.fn \in {"matching", "is_real"} /\ cleaned.tag # "Ok"
           THEN /\ result' = [result EXCEPT ![t] = cleaned]
                /\ pc' = [pc EXCEPT ![t] = IF cleaned.tag = "Panic" THEN "panicked" ELSE "returned"]
           ELSE /\ result' = result
                /\ pc' = [pc EXCEPT ![t] = "deref"]
    /\ UNCHANGED <<queryVars, once, cell, embedded, initRuns, building, heap, handle>>

\* Once::call_once, state INCOMPLETE: this thread runs the initialiser
DerefBegin(t) ==
    /\ pc[t] = "deref"
    /\ MayRun(once)
    /\ once' = "RUNNING"
    /\ initRuns' = initRuns + 1
    /\ pc' = [pc EXCEPT ![t] = "decompress"]
    /\ UNCHANGED <<queryVars, cell, embedded, call, building, result, heap, handle>>

\* Once::call_once, state POISONED: the call panics
DerefPoisoned(t) ==
    /\ pc[t] = "deref"
    /\ once = "POISONED"
    /\ pc' = [pc EXCEPT ![t] = "panicked"]
    /\ result' = [result EXCEPT ![t] = Panic]
    /\ UNCHANGED <<queryVars, once, cell, embedded, initRuns, call, building, heap, handle>>

\* lines 12-14 of the initialiser
InitDecompress(t) ==
    /\ pc[t] = "decompress"
    /\ LET text == unwrap(read_to_string(embedded)) IN
       IF text.tag = "Ok"
       THEN /\ building' = [building EXCEPT ![t] = text.val]
            /\ pc' = [pc EXCEPT ![t] = "parse"]
            /\ UNCHANGED <<once, result>>
       ELSE /\ once' = "POISONED"
            /\ pc' = [pc EXCEPT ![t] = "panicked"]
            /\ result' = [result EXCEPT ![t] = Panic]
            /\ UNCHANGED building
    /\ UNCHANGED <<queryVars, cell, embedded, initRuns, call, heap, handle>>

\* lines 15-18 of the initialiser; its value is stored in the cell
InitParse(t) ==
    /\ pc[t] = "parse"
    /\ LET parsed == ok_or_panic(from_str(building[t])) IN
       IF parsed.tag = "Ok"
       THEN /\ cell' = Some(parsed.val)
            /\ pc' = [pc EXCEPT ![t] = "complete"]
            /\ UNCHANGED <<once, result>>
       ELSE /\ once' = "POISONED"
            /\ pc' = [pc EXCEPT ![t] = "panicked"]
            /\ result' = [result EXCEPT ![t] = Panic]
            /\ UNCHANGED cell
    /\ building' = [building EXCEPT ![t] = "none"]
    /\ UNCHANGED <<queryVars, embedded, initRuns, call, heap, handle>>

\* the closure returned: the Once becomes COMPLETE and waiters wake
InitComplete(t) ==
    /\ pc[t] = "complete"
    /\ once' = "COMPLETE"
    /\ pc' = [pc EXCEPT ![t] = "deref"]
    /\ UNCHANGED <<queryVars, cell, embedded, initRuns, call, building, result, heap, handle>>

\* the rest of the call, with ZIPCODES dereferenced
Finish(t) ==
    /\ pc[t] = "deref"
    /\ MayRead(once)
    /\ pc' = [pc EXCEPT ![t] = "returned"]
    /\ LET c == call[t] IN
       IF c.fn = "list_all"
       THEN /\ handle' = [handle EXCEPT ![t] = <<clone(t)>>]
            /\ heap' = [heap EXCEPT ![t] = list_all(cell.vec)]
            /\ result' = [result EXCEPT ![t] = Ok("vec")]
       ELSE /\ result' = [result EXCEPT ![t] =
                    IF c.fn = "matching" THEN matching(c.zipcode, c.zipcodes, cell.vec)
                    ELSE IF c.fn = "is_real" THEN is_real(c.zipcode, cell.vec)
                    ELSE filter_by(c.filters, c.zipcodes, cell.vec)]
            /\ UNCHANGED <<heap, handle>>
    /\ UNCHANGED <<queryVars, once, cell, embedded, initRuns, call, building>>

\* what a caller can do to the vector it was given
Mutations(v) ==
    {Append(v, Z2), <<>>}
    \cup (IF v = <<>> THEN {} ELSE {Tail(v), <<Z2>> \o Tail(v)})

\* the caller changes the vector list_all returned
Mutate(t) ==
    /\ pc[t] = "returned"
    /\ handle[t] # <<>>
    /\ pc' = [pc EXCEPT ![t] = "mutated"]
    /\ \E v \in Mutations(Vec(handle[t][1])) :
        IF handle[t][1] = 0
        THEN cell' = Some(v) /\ heap' = heap
        ELSE heap' = [heap EXCEPT ![handle[t][1]] = v] /\ cell' = cell
    /\ UNCHANGED <<queryVars, once, embedded, initRuns, call, building, result, handle>>

\* the caller is done with the returned value
Return(t) ==
    /\ pc[t] \in {"returned", "mutated"}
    /\ pc' = [pc EXCEPT ![t] = "idle"]
    /\ call' = [call EXCEPT ![t] = NoArgs]
    /\ result' = [result EXCEPT ![t] = NoRet]
    /\ heap' = [heap EXCEPT ![t] = <<>>]
    /\ handle' = [handle EXCEPT ![t] = <<>>]
    /\ UNCHANGED <<queryVars, once, cell, embedded, initRuns, building>>

Next ==
    \E t \in Threads :
        \/ Call(t)
        \/ DerefBegin(t)
        \/ DerefPoisoned(t)
        \/ InitDecompress(t)
        \/ InitParse(t)
        \/ InitComplete(t)
        \/ Finish(t)
        \/ Mutate(t)
        \/ Return(t)

Spec == Init /\ [][Next]_vars

----------------------------------------------------------------------------
(* What the claims speak of *)

\* the first n characters of s
FirstChars(s, n) == SubSeq(s, 1, n)

\* s, trimmed, starts with ZIPCODE_LENGTH ASCII digits
LeadsWithDigits(s) ==
    /\ Len(Trim(s)) >= ZIPCODE_LENGTH
    /\ \A i \in 1..ZIPCODE_LENGTH : Trim(s)[i] \in AsciiDigits

\* s, trimmed, has ZIPCODE_LENGTH characters or more, and one of the first
\* ZIPCODE_LENGTH is no digit of any script
LeadsWithNonDigit(s) ==
    /\ Len(Trim(s)) >= ZIPCODE_LENGTH
    /\ \E i \in 1..ZIPCODE_LENGTH : ~IsNumeric(Trim(s)[i])

\* the records a call is to search: the override when one is given, the
\* embedded records otherwise
ScopeOf(o) == IF o.some THEN o.vec ELSE Data

\* the records of v whose code is code, in the order of v
WithCode(v, code) ==
    LET Keep(z) == z.zip_code = code IN SelectSeq(v, Keep)

\* the set of elements of a sequence
Range(v) == {v[i] : i \in 1..Len(v)}

\* the elements of v that occur in w, in the order of v
Intersection(v, w) ==
    LET Keep(z) == z \in Range(w) IN SelectSeq(v, Keep)

\* v is w with some records left out, order kept
Restricts(v, w) == v = Intersection(w, v)

\* C1: when the first five characters of the trimmed argument are digits,
\* clean_zipcode returns Ok of exactly those five characters.
C1_CleanReturnsFirstFive ==
    (fn = "clean_zipcode" /\ LeadsWithDigits(input))
        => ret = Ok(FirstChars(Trim(input), ZIPCODE_LENGTH))

\* C2: for a validating argument and any scope, matching returns Ok of the
\* records of the scope whose code is the first five characters of the
\* trimmed argument, in scope order, duplicates kept; Ok(empty) when none.
C2_MatchingSelectsCanonicalCode ==
    (fn \in {"matching", "matching_inner"} /\ LeadsWithDigits(input))
        => ret = Ok(WithCode(ScopeOf(scope),
                             FirstChars(Trim(input), ZIPCODE_LENGTH)))

\* C3: when the trimmed argument has fewer than five characters,
\* clean_zipcode, matching and is_real all return Err(InvalidFormat).
C3_ShortIsInvalidFormat ==
    (fn \in {"clean_zipcode", "matching", "is_real"} /\ Len(Trim(input)) < ZIPCODE_LENGTH)
        => ret = Err("InvalidFormat")

\* C4: when the trimmed argument has five characters or more and one of the
\* first five is not a digit, clean_zipcode returns Err(InvalidCharacters):
\* it neither succeeds nor panics.
C4_NonDigitIsInvalidCharacters ==
    (fn = "clean_zipcode" /\ LeadsWithNonDigit(input))
        => ret = Err("InvalidCharacters")

\* C6: is_real(c) is Ok(true) exactly when matching(c, None) is Ok and not
\* empty, Ok(false) exactly when it is Ok and empty, and otherwise ends as
\* matching(c, None) ends.
C6_IsRealAgreesWithMatching ==
    fn = "is_real" =>
        LET m == matching(input, None, cell.vec) IN
        IF m.tag = "Ok"
        THEN ret.tag = "Ok" /\ (ret.val <=> m.val # <<>>)
        ELSE ret = m

C6_Witness ==
    /\ fn = "is_real"
    /\ input # Trim(input)
    /\ ret = Ok(TRUE)

\* C7: with an override, matching and filter_by return records of the
\* override only, in its order; and matching(c, Some(matching(other, None)))
\* is empty when the codes c and other differ.
C7_OverrideRestrictsSearch ==
    /\ (fn \in {"matching", "matching_inner", "filter_by"} /\ scope.some)
        => (ret.tag = "Ok" /\ Restricts(ret.val, scope.vec))
    /\ (fn = "matching_inner" /\ clean_zipcode(input) # clean_zipcode(other))
        => ret = Ok(<<>>)

C7_Witness ==
    /\ fn = "matching_inner"
    /\ clean_zipcode(input) # clean_zipcode(other)
    /\ scope.vec # <<>>
    /\ matching(input, None, cell.vec).val # <<>>
    /\ ret = Ok(<<>>)

\* C8: filter_by never fails and keeps exactly the records of the scope
\* that every filter accepts, in scope order; with two filters that is the
\* order-preserving intersection of the two single-filter results; with no
\* filter it is the whole scope, and filter_by([], None) is list_all().
C8_FilterByIsConjunction ==
    fn = "filter_by" =>
        LET src == ScopeOf(scope)
            All(z) == \A i \in 1..Len(filters) : filters[i][z]
            One(i) == filter_by(<<filters[i]>>, scope, cell.vec).val
        IN  /\ ret = Ok(SelectSeq(src, All))
            /\ Len(filters) = 2 => ret.val = Intersection(One(1), One(2))
            /\ filters = <<>> => ret.val = src
            /\ (filters = <<>> /\ ~scope.some) => ret.val = list_all(cell.vec)

C8_Witness ==
    /\ fn = "filter_by"
    /\ Len(filters) = 2
    /\ scope.some
    /\ ret.val # <<>>
    /\ ret.val # filter_by(<<filters[1]>>, scope, cell.vec).val
    /\ ret.val # filter_by(<<filters[2]>>, scope, cell.vec).val

\* what the call of thread t returns when ZIPCODES holds the records D
Expected(t, D) ==
    LET c == call[t] IN
    IF c.fn = "matching" THEN matching(c.zipcode, c.zipcodes, D)
    ELSE IF c.fn = "is_real" THEN is_real(c.zipcode, D)
    ELSE filter_by(c.filters, c.zipcodes, D)

\* thread t's call went through ZIPCODES and came back
Served(t) == pc[t] \in {"returned", "mutated"} /\ result[t].tag = "Ok"

\* what thread t got is what the whole of Data gives
ObservesData(t) ==
    IF call[t].fn = "list_all"
    THEN pc[t] = "returned" => Vec(handle[t][1]) = Data
    ELSE result[t] = Expected(t, Data)

Initialising == {t \in Threads : pc[t] \in {"decompress", "parse", "complete"}}

\* C5: the initialiser is entered at most once and by one thread; while it
\* runs, a thread that dereferences ZIPCODES can take no step; a thread that
\* was served was served after completion, from the whole dataset.
C5_InitialisedExactlyOnce ==
    /\ initRuns <= 1
    /\ Cardinality(Initialising) = (IF once = "RUNNING" THEN 1 ELSE 0)
    /\ once = "RUNNING" =>
        \A t \in Threads : pc[t] = "deref" =>
            ~ENABLED (DerefBegin(t) \/ DerefPoisoned(t) \/ Finish(t))
    /\ \A t \in Threads : Served(t) =>
        /\ once = "COMPLETE"
        /\ initRuns = 1
        /\ ObservesData(t)

C5_Witness ==
    \E t, u \in Threads :
        /\ t # u
        /\ Served(t) /\ call[t].fn = "list_all"
        /\ Served(u) /\ call[u].fn = "matching" /\ ~call[u].zipcodes.some
        /\ result[u].val # <<>>

\* C9: whatever callers did to the vectors list_all gave them, and whatever
\* calls were made, ZIPCODES holds the embedded records and every call
\* returns what the embedded records give.
C9_CopyIsIndependent ==
    /\ cell.some => cell.vec = Data
    /\ \A t \in Threads : Served(t) => ObservesData(t)

C9_Witness ==
    \E t, u \in Threads :
        /\ t # u
        /\ pc[t] = "mutated" /\ heap[t] # Data
        /\ pc[u] = "returned" /\ call[u].fn = "list_all" /\ heap[u] = Data
        /\ cell = Some(Data)

\* the call of thread t reads ZIPCODES for its scope
NeedsSingleton(t) ==
    \/ call[t].fn \in {"is_real", "list_all"}
    \/ call[t].fn \in {"matching", "filter_by"} /\ ~call[t].zipcodes.some

\* C10: with corrupt embedded data nothing is ever stored in ZIPCODES, the
\* Once never completes, and a call that needs ZIPCODES ends in a panic: it
\* returns no Ok, and an Err only for an argument clean_zipcode rejects.
C10_CorruptDataIsFatal ==
    embedded # "intact" =>
        /\ cell = None
        /\ once # "COMPLETE"
        /\ \A t \in Threads : NeedsSingleton(t) =>
            \/ result[t].tag \in {"NoRet", "Panic"}
            \/ /\ result[t].tag = "Err"
               /\ call[t].fn \in {"matching", "is_real"}
               /\ result[t] = clean_zipcode(call[t].zipcode)

C10_Witness ==
    /\ embedded = "corrupt_json"
    /\ once = "POISONED"
    /\ \E t, u \in Threads :
        /\ t # u
        /\ NeedsSingleton(t) /\ pc[t] = "panicked"
        /\ NeedsSingleton(u) /\ pc[u] = "panicked"
        /\ call[t].fn # call[u].fn

====
